---- MODULE Spec2Model ----
(***************************************************************************)
(* Privy fraud-detection API: the risk evaluation pipeline.                *)
(*   - app/services/rate_limiter.py : token bucket (TOKENS_LUA)            *)
(*   - app/services/scoring.py      : compute_score and its helpers        *)
(*   - app/api/routes.py            : the /v1/check handler                *)
(* Python strings are sequences of one-character strings, so splitting,    *)
(* case folding, regular-expression matching and int() parsing are         *)
(* computed character by character.                                        *)
(***************************************************************************)
EXTENDS Integers, Sequences, FiniteSets, TLC

(***************************************************************************)
(* Characters and strings                                                  *)
(***************************************************************************)
Letters == <<"a","b","c","d","e","f","g","h","i","j","k","l","m",
             "n","o","p","q","r","s","t","u","v","w","x","y","z">>
Uppers  == <<"A","B","C","D","E","F","G","H","I","J","K","L","M",
             "N","O","P","Q","R","S","T","U","V","W","X","Y","Z">>
Digits  == <<"0","1","2","3","4","5","6","7","8","9">>

Range(s) == {s[i] : i \in DOMAIN s}

\* Python's None; no string of the model is this one-element sequence.
None == <<"None">>

\* Python truthiness of an Optional[str]: None and "" are falsy.
Truthy(s) == s # None /\ s # <<>>

LetterSet == Range(Letters)
UpperSet == Range(Uppers)
DigitSet == Range(Digits)

IsLowerAZ(c) == c \in LetterSet
IsDigit(c) == c \in DigitSet
\* \w on a str pattern: letters, digits and the underscore.
IsWord(c) == IsLowerAZ(c) \/ c \in UpperSet \/ IsDigit(c) \/ c = "_"
IsSpace(c) == c \in {" ", "\t", "\n"}

LowerChar(c) ==
    IF c \in UpperSet
    THEN Letters[CHOOSE i \in DOMAIN Uppers : Uppers[i] = c]
    ELSE c

\* an address compared without case folding
LowerMissing(s) == s

\* str.lower()
Lower(s) == [i \in DOMAIN s |-> LowerChar(s[i])]

Contains(s, c) == \E i \in DOMAIN s : s[i] = c

\* index of the first occurrence of c in s (0 when there is none)
IndexOf(s, c) ==
    IF Contains(s, c)
    THEN CHOOSE i \in DOMAIN s : s[i] = c /\ \A k \in 1..(i - 1) : s[k] # c
    ELSE 0

\* str.split(c): all the pieces
RECURSIVE Split(_, _)
Split(s, c) ==
    IF ~Contains(s, c)
    THEN <<s>>
    ELSE LET i == IndexOf(s, c)
         IN  <<SubSeq(s, 1, i - 1)>> \o Split(SubSeq(s, i + 1, Len(s)), c)

\* str.split(c, 1) of a string that contains c: <<before, after>>
SplitOnce(s, c) ==
    LET i == IndexOf(s, c)
    IN  <<SubSeq(s, 1, i - 1), SubSeq(s, i + 1, Len(s))>>

\* str.strip()
RECURSIVE LStrip(_)
LStrip(s) == IF s # <<>> /\ IsSpace(s[1]) THEN LStrip(Tail(s)) ELSE s
RECURSIVE RStrip(_)
RStrip(s) ==
    IF s # <<>> /\ IsSpace(s[Len(s)]) THEN RStrip(SubSeq(s, 1, Len(s) - 1)) ELSE s
Strip(s) == RStrip(LStrip(s))

\* every character of s[i..j] satisfies P (true of the empty run)
Run(s, i, j, P(_)) == \A k \in i..j : P(s[k])

DigitVal(c) == (CHOOSE i \in DOMAIN Digits : Digits[i] = c) - 1

RECURSIVE DecValue(_)
DecValue(s) ==
    IF s = <<>> THEN 0
    ELSE DecValue(SubSeq(s, 1, Len(s) - 1)) * 10 + DigitVal(s[Len(s)])

\* int(x): surrounding whitespace is ignored, one sign is accepted, the rest
\* must be one or more digits; anything else raises ValueError (ok = FALSE).
ParseInt(x) ==
    LET Digits_(body, sign) ==
            IF body # <<>> /\ Run(body, 1, Len(body), IsDigit)
            THEN [ok |-> TRUE, val |-> sign * DecValue(body)]
            ELSE [ok |-> FALSE, val |-> 0]
        Signed(t) ==
            IF t # <<>> /\ t[1] \in {"+", "-"}
            THEN Digits_(Tail(t), IF t[1] = "-" THEN 0 - 1 ELSE 1)
            ELSE Digits_(t, 1)
    IN  Signed(Strip(x))

Min(a, b) == IF a < b THEN a ELSE b
Max(a, b) == IF a > b THEN a ELSE b

(***************************************************************************)
(* scoring.py: tables                                                      *)
(***************************************************************************)
WeightTags == {"disposable_email", "vpn_ip", "tor_exit", "bad_isp",
               "high_risk_country", "multiple_from_ip", "custom_blacklist",
               "suspicious_email_pattern", "new_domain", "free_email"}

WEIGHTS ==
    [t \in WeightTags |->
        CASE t = "disposable_email" -> 70
          [] t = "vpn_ip" -> 45
          [] t = "tor_exit" -> 85
          [] t = "bad_isp" -> 35
          [] t = "high_risk_country" -> 25
          [] t = "multiple_from_ip" -> 30
          [] t = "custom_blacklist" -> 100
          [] t = "suspicious_email_pattern" -> 40
          [] t = "new_domain" -> 20
          [] t = "free_email" -> 10]

FREE_EMAIL_PROVIDERS ==
    { <<"g","m","a","i","l",".","c","o","m">>,
      <<"y","a","h","o","o",".","c","o","m">>,
      <<"h","o","t","m","a","i","l",".","c","o","m">>,
      <<"o","u","t","l","o","o","k",".","c","o","m">>,
      <<"a","o","l",".","c","o","m">>,
      <<"i","c","l","o","u","d",".","c","o","m">>,
      <<"p","r","o","t","o","n","m","a","i","l",".","c","o","m">>,
      <<"y","a","n","d","e","x",".","c","o","m">>,
      <<"m","a","i","l",".","c","o","m">>,
      <<"z","o","h","o",".","c","o","m">>,
      <<"t","u","t","a","n","o","t","a",".","c","o","m">> }

(***************************************************************************)
(* SUSPICIOUS_PATTERNS.  re.match anchors at the start of the string and   *)
(* every pattern ends in "@" after character classes that exclude "@", so  *)
(* a match ends at the first "@" of the string: at = IndexOf(s, "@").      *)
(* Each pattern holds iff split points exist for its runs.                 *)
(***************************************************************************)
\* ^[a-z]+\d{4,}@
Pattern1(s) ==
    LET at == IndexOf(s, "@")
    IN  at > 0 /\ \E i \in 1..(at - 1) :
            /\ (at - 1) - i >= 4
            /\ Run(s, 1, i, IsLowerAZ)
            /\ Run(s, i + 1, at - 1, IsDigit)

\* ^\w{1,3}\d{3,}@
Pattern2(s) ==
    LET at == IndexOf(s, "@")
    IN  at > 0 /\ \E i \in 1..Min(3, at - 1) :
            /\ (at - 1) - i >= 3
            /\ Run(s, 1, i, IsWord)
            /\ Run(s, i + 1, at - 1, IsDigit)

\* ^[a-z]+[._-][a-z]+\d+@
Pattern3(s) ==
    LET at == IndexOf(s, "@")
    IN  at > 0 /\ \E i \in 1..(at - 1) : \E k \in (i + 2)..(at - 2) :
            /\ Run(s, 1, i, IsLowerAZ)
            /\ s[i + 1] \in {".", "_", "-"}
            /\ Run(s, i + 2, k, IsLowerAZ)
            /\ Run(s, k + 1, at - 1, IsDigit)

\* ^\d+[a-z]*@
Pattern4(s) ==
    LET at == IndexOf(s, "@")
    IN  at > 0 /\ \E i \in 1..(at - 1) :
            /\ Run(s, 1, i, IsDigit)
            /\ Run(s, i + 1, at - 1, IsLowerAZ)

\* ^[a-z]*<word>[a-z]*\d*@ with the word starting after a prefix of length i
WordThenTail(s, i, word) ==
    LET at == IndexOf(s, "@")
    IN  /\ i + Len(word) <= at - 1
        /\ SubSeq(s, i + 1, i + Len(word)) = word
        /\ \E j \in (i + Len(word))..(at - 1) :
              /\ Run(s, i + Len(word) + 1, j, IsLowerAZ)
              /\ Run(s, j + 1, at - 1, IsDigit)

\* ^[a-z]*test[a-z]*\d*@
Pattern5(s) ==
    LET at == IndexOf(s, "@")
    IN  at > 0 /\ \E i \in 0..(at - 1) :
            /\ Run(s, 1, i, IsLowerAZ)
            /\ WordThenTail(s, i, <<"t","e","s","t">>)

\* ^temp[a-z]*\d*@
Pattern6(s) == IndexOf(s, "@") > 0 /\ WordThenTail(s, 0, <<"t","e","m","p">>)

\* ^fake[a-z]*\d*@
Pattern7(s) == IndexOf(s, "@") > 0 /\ WordThenTail(s, 0, <<"f","a","k","e">>)

\* SUSPICIOUS_PATTERNS[n] matched against s
MatchPattern(n, s) ==
    CASE n = 1 -> Pattern1(s)
      [] n = 2 -> Pattern2(s)
      [] n = 3 -> Pattern3(s)
      [] n = 4 -> Pattern4(s)
      [] n = 5 -> Pattern5(s)
      [] n = 6 -> Pattern6(s)
      [] n = 7 -> Pattern7(s)

NumPatterns == 7

\* the for loop without its break: every matching pattern adds the weight
MatchedPatternsAll(s) == {n \in 1..NumPatterns : MatchPattern(n, s)}

\* the for loop with break: the patterns that add the weight (the first
\* matching one, or none)
MatchedPatterns(s) ==
    {n \in 1..NumPatterns :
        MatchPattern(n, s) /\ \A m \in 1..(n - 1) : ~MatchPattern(m, s)}

(***************************************************************************)
(* Inputs of the scorer                                                    *)
(***************************************************************************)
Email_a1_gmail == <<"a","1","@","g","m","a","i","l",".","c","o","m">>
Email_test12345 == <<"t","e","s","t","1","2","3","4","5","@","x",".","c","o","m">>
Email_john == <<"j","o","h","n","@","x",".","o","r","g">>
Email_Bob_GMAIL == <<"B","o","b","@","G","M","A","I","L",".","c","o","m">>
Email_no_at == <<"n","o","d","o","m","a","i","n">>
Email_digits == <<"1","2","3","4","5","@","x",".","c","o","m">>
Email_doe == <<"j",".","d","o","e","1","@","x",".","c","o","m">>
Email_long == [i \in 1..30 |-> "a"] \o <<"@","x",".","c","o","m">>
Email_disposable == <<"a","@","t","m","p",".","i","o">>
Email_bare_domain == <<"t","m","p",".","i","o">>

Ip_10 == <<"1","0",".","0",".","0",".","5">>
Ip_8888 == <<"8",".","8",".","8",".","8">>
Ip_172_16 == <<"1","7","2",".","1","6",".","0",".","1">>
Ip_172_32 == <<"1","7","2",".","3","2",".","0",".","1">>
Ip_192_168 == <<"1","9","2",".","1","6","8",".","1",".","1">>
Ip_127 == <<"1","2","7",".","0",".","0",".","1">>
Ip_185 == <<"1","8","5",".","2","2","0",".","1","0","1",".","7">>
Ip_203 == <<"2","0","3",".","0",".","1","1","3",".","9">>
Ip_letters == <<"a","b","c">>
Ip_three_parts == <<"1","0",".","0",".","0">>
Ip_10_300 == <<"1","0",".","3","0","0",".","0",".","1">>

ScoreEmails == {None, <<>>, Email_a1_gmail, Email_test12345, Email_john,
                Email_Bob_GMAIL, Email_no_at, Email_digits, Email_doe,
                Email_long}

ScoreIps == {None, <<>>, Ip_10, Ip_8888, Ip_172_16, Ip_172_32, Ip_192_168,
             Ip_127, Ip_185, Ip_letters, Ip_three_parts, Ip_10_300}

\* tags offered as hits: table tags and one tag the table does not have
HitTags == {"disposable_email", "vpn_ip", "tor_exit", "bad_isp",
            "high_risk_country", "multiple_from_ip", "custom_blacklist",
            "unknown_indicator"}

\* longest hit list offered to the scorer
MaxHits == 2

SeqsUpTo(S, n) == UNION {[1..k -> S] : k \in 0..n}

(***************************************************************************)
(* scoring.py: functions                                                   *)
(***************************************************************************)
\* sum(c.isdigit() for c in local_part)
DigitCount(s) == Cardinality({i \in DOMAIN s : IsDigit(s[i])})

\* _analyze_email_patterns(email) -> (score, reasons)
AnalyzeEmailPatterns(email) ==
    IF ~Truthy(email) \/ ~Contains(email, "@")
    THEN [score |-> 0, reasons |-> <<>>]
    ELSE
      LET Checks(free, nsusp, short, long, manyDigits) ==
              [score |->
                   (IF free THEN WEIGHTS["free_email"] ELSE 0)
                 + nsusp * WEIGHTS["suspicious_email_pattern"]
                 + (IF short THEN 15 ELSE 0)
                 + (IF long THEN 10 ELSE 0)
                 + (IF manyDigits THEN 20 ELSE 0),
               reasons |->
                   (IF free THEN <<"free_email">> ELSE <<>>)
                \o [i \in 1..nsusp |-> "suspicious_email_pattern"]
                \o (IF short THEN <<"short_email_local">> ELSE <<>>)
                \o (IF long THEN <<"long_email_local">> ELSE <<>>)
                \o (IF manyDigits THEN <<"excessive_numbers_email">> ELSE <<>>)]
          Parts(low, local_part, domain) ==
              Checks(domain \in FREE_EMAIL_PROVIDERS,
                     Cardinality(MatchedPatterns(low)),
                     Len(local_part) <= 2,
                     Len(local_part) >= 30,
                     DigitCount(local_part) >= 5)
          Lowered(low) == Parts(low, SplitOnce(low, "@")[1], SplitOnce(low, "@")[2])
      IN  Lowered(Lower(email))

\* parts = [int(x) for x in ip.split('.')]: ok is FALSE when an int() raises
IpParts(ip) ==
    LET Parsed(parsed) ==
            [ok |-> \A i \in DOMAIN parsed : parsed[i].ok,
             parts |-> [i \in DOMAIN parsed |-> parsed[i].val]]
        Pieces(pieces) == Parsed([i \in DOMAIN pieces |-> ParseInt(pieces[i])])
    IN  Pieces(Split(ip, "."))

\* _is_private_ip(ip)
IsPrivateIp(ip) ==
    \E p \in {IpParts(ip)} :
        LET parts == p.parts
        IN  IF ~p.ok THEN FALSE
            ELSE IF Len(parts) # 4 THEN FALSE
            ELSE \/ parts[1] = 10
                 \/ parts[1] = 172 /\ 16 <= parts[2] /\ parts[2] <= 31
                 \/ parts[1] = 192 /\ parts[2] = 168
                 \/ parts[1] = 127

suspicious_ranges == {<<185, 220, 101>>, <<198, 7, 58>>, <<185, 216, 35>>}

\* _is_suspicious_ip_range(ip)
IsSuspiciousIpRange(ip) ==
    \E p \in {IpParts(ip)} :
        LET parts == p.parts
        IN  IF ~p.ok THEN FALSE
            ELSE IF Len(parts) # 4 THEN FALSE
            ELSE \E r \in suspicious_ranges :
                    parts[1] = r[1] /\ parts[2] = r[2] /\ parts[3] = r[3]

\* _analyze_ip_patterns(ip) -> (score, reasons)
AnalyzeIpPatterns(ip) ==
    IF ~Truthy(ip)
    THEN [score |-> 0, reasons |-> <<>>]
    ELSE LET Checks(private, suspicious) ==
                 [score |-> (IF private THEN 50 ELSE 0)
                          + (IF suspicious THEN 25 ELSE 0),
                  reasons |-> (IF private THEN <<"private_ip">> ELSE <<>>)
                           \o (IF suspicious
                               THEN <<"suspicious_ip_range">> ELSE <<>>)]
         IN  Checks(IsPrivateIp(ip), IsSuspiciousIpRange(ip))

\* The two analyses are pure; their values on the offered inputs are computed
\* once and looked up afterwards.
EmailAnalysisMemo ==
    [e \in ScoreEmails \cup {Email_disposable, Email_bare_domain} |->
        AnalyzeEmailPatterns(e)]
IpAnalysisMemo == [i \in ScoreIps \cup {Ip_203} |-> AnalyzeIpPatterns(i)]

EmailAnalysis(email) == EmailAnalysisMemo[email]
IpAnalysis(ip) == IpAnalysisMemo[ip]

\* the weights test_scoring.py states for vpn_ip and tor_exit
WeightOfTestTable(hit) ==
    IF hit = "vpn_ip" THEN 60
    ELSE IF hit = "tor_exit" THEN 80
    ELSE IF hit \in DOMAIN WEIGHTS THEN WEIGHTS[hit] ELSE 0

\* WEIGHTS.get(hit, 0)
WeightOf(hit) == IF hit \in DOMAIN WEIGHTS THEN WEIGHTS[hit] ELSE 0

\* a scorer that counts every distinct tag once
HitsScoreDistinct(hits) ==
    LET tags == {hits[i] : i \in DOMAIN hits}
        RECURSIVE SumOver(_)
        SumOver(S) == IF S = {} THEN 0
                      ELSE LET t == CHOOSE x \in S : TRUE
                           IN  WeightOf(t) + SumOver(S \ {t})
    IN  SumOver(tags)

\* the loop "for hit in hits: score += WEIGHTS.get(hit, 0)"
RECURSIVE HitsScore(_)
HitsScore(hits) ==
    IF hits = <<>> THEN 0 ELSE WeightOf(Head(hits)) + HitsScore(Tail(hits))

\* a scorer without the cap
CapScoreMissing(score) == score

\* score = min(score, 100)
CapScore(score) == Min(score, 100)

\* a level ladder whose lowest threshold is exclusive
LevelOfExclusiveLow(score) ==
    IF score >= 80 THEN "high"
    ELSE IF score >= 60 THEN "medium"
    ELSE IF score > 30 THEN "low"
    ELSE "none"

\* a level ladder whose last branch repeats "low"
LevelOfNoNone(score) ==
    IF score >= 80 THEN "high"
    ELSE IF score >= 60 THEN "medium"
    ELSE "low"

\* the level ladder of compute_score
LevelOf(score) ==
    IF score >= 80 THEN "high"
    ELSE IF score >= 60 THEN "medium"
    ELSE IF score >= 30 THEN "low"
    ELSE "none"

\* the uncapped total of compute_score
RawScore(hits, email_analysis, ip_analysis) ==
    HitsScore(hits) + email_analysis.score + ip_analysis.score

\* what the branches "if email:" and "if ip:" add when they are not taken
NoAnalysis == [score |-> 0, reasons |-> <<>>]

\* a scorer that runs the ip analysis before the email analysis
ComputeScoreIpFirst(hits, email, ip) ==
    LET Capped(score, email_reasons, ip_reasons) ==
            [score |-> score,
             level |-> LevelOf(score),
             reasons |-> hits \o ip_reasons \o email_reasons]
        Analysed(ea, ia) ==
            Capped(CapScore(RawScore(hits, ea, ia)), ea.reasons, ia.reasons)
    IN  Analysed(IF Truthy(email) THEN EmailAnalysis(email) ELSE NoAnalysis,
                 IF Truthy(ip) THEN IpAnalysis(ip) ELSE NoAnalysis)

\* compute_score(hits, email, ip) -> (score, level, reasons)
ComputeScore(hits, email, ip) ==
    LET Capped(score, email_reasons, ip_reasons) ==
            [score |-> score,
             level |-> LevelOf(score),
             reasons |-> hits \o email_reasons \o ip_reasons]
        Analysed(ea, ia) ==
            Capped(CapScore(RawScore(hits, ea, ia)), ea.reasons, ia.reasons)
    IN  Analysed(IF Truthy(email) THEN EmailAnalysis(email) ELSE NoAnalysis,
                 IF Truthy(ip) THEN IpAnalysis(ip) ELSE NoAnalysis)

\* get_risk_explanation(score, level): the sentence of the level with the
\* score formatted into it, as <<label, score, "/100" or "", advice>>
GetRiskExplanation(score, level) ==
    CASE level = "none" -> <<"Low risk", score, "/100", "Safe to proceed with normal flow.">>
      [] level = "low" -> <<"Low risk", score, "/100", "Monitor user behavior but allow registration.">>
      [] level = "medium" -> <<"Medium risk", score, "/100", "Recommend additional verification (CAPTCHA, email verification, 2FA).">>
      [] level = "high" -> <<"High risk", score, "/100", "Consider blocking or requiring manual review.">>
      [] OTHER -> <<"Unknown risk level", level, score, "">>

\* get_action_recommendations(score)
GetActionRecommendations(score) ==
    IF score >= 80 THEN
        [action |-> "block",
         message |-> "High fraud risk detected. Registration blocked.",
         recommendations |-> <<"Block registration immediately",
                               "Log details for investigation",
                               "Consider IP/email blocking",
                               "Manual review if legitimate user">>]
    ELSE IF score >= 60 THEN
        [action |-> "challenge",
         message |-> "Medium fraud risk detected. Additional verification required.",
         recommendations |-> <<"Require CAPTCHA verification",
                               "Send email verification link",
                               "Enable 2FA requirement",
                               "Monitor subsequent actions">>]
    ELSE IF score >= 30 THEN
        [action |-> "monitor",
         message |-> "Low fraud risk detected. Monitor user behavior.",
         recommendations |-> <<"Allow registration with monitoring",
                               "Track user behavior patterns",
                               "Flag for review if suspicious activity",
                               "Consider velocity limits">>]
    ELSE
        [action |-> "allow",
         message |-> "Low fraud risk. Safe to proceed.",
         recommendations |-> <<"Allow normal registration flow",
                               "Standard monitoring applies">>]

(***************************************************************************)
(* rate_limiter.py                                                         *)
(***************************************************************************)
\* Token counts are fractions; the store keeps them in units of 1/Resolution
\* token, so that rates that are multiples of 1/Resolution are exact.
Resolution == 2

\* what redis GET yields for a key that was never set
NoVal == -1

\* a script that stores the refilled count before taking the token
TokensLuaNoDecrement(tokens_val, ts_val, rate_, capacity_, now) ==
    LET tokens0 == IF tokens_val = NoVal THEN capacity_ * Resolution ELSE tokens_val
        last == IF ts_val = NoVal THEN 0 ELSE ts_val
        tokens1 == Min(capacity_ * Resolution, tokens0 + Max(0, now - last) * rate_)
    IN  [tokens |-> tokens1, ts |-> now,
         res |-> IF tokens1 < 1 * Resolution THEN 0 ELSE 1]

\* a script that never refills
TokensLuaNoRefill(tokens_val, ts_val, rate_, capacity_, now) ==
    LET tokens0 == IF tokens_val = NoVal THEN capacity_ * Resolution ELSE tokens_val
    IN  IF tokens0 < 1 * Resolution
        THEN [tokens |-> tokens0, ts |-> now, res |-> 0]
        ELSE [tokens |-> tokens0 - 1 * Resolution, ts |-> now, res |-> 1]

\* a script whose deny branch does not store the timestamp
TokensLuaDenyKeepsTs(tokens_val, ts_val, rate_, capacity_, now) ==
    LET tokens0 == IF tokens_val = NoVal THEN capacity_ * Resolution ELSE tokens_val
        last == IF ts_val = NoVal THEN 0 ELSE ts_val
        tokens1 == Min(capacity_ * Resolution, tokens0 + Max(0, now - last) * rate_)
    IN  IF tokens1 < 1 * Resolution
        THEN [tokens |-> tokens1, ts |-> ts_val, res |-> 0]
        ELSE [tokens |-> tokens1 - 1 * Resolution, ts |-> now, res |-> 1]

\* a script that refills without math.min(capacity, ...)
TokensLuaNoCap(tokens_val, ts_val, rate_, capacity_, now) ==
    LET tokens0 == IF tokens_val = NoVal THEN capacity_ * Resolution ELSE tokens_val
        last == IF ts_val = NoVal THEN 0 ELSE ts_val
        tokens1 == tokens0 + Max(0, now - last) * rate_
    IN  IF tokens1 < 1 * Resolution
        THEN [tokens |-> tokens1, ts |-> now, res |-> 0]
        ELSE [tokens |-> tokens1 - 1 * Resolution, ts |-> now, res |-> 1]

\* a script that never stores the timestamp
TokensLuaNoTimestamp(tokens_val, ts_val, rate_, capacity_, now) ==
    LET tokens0 == IF tokens_val = NoVal THEN capacity_ * Resolution ELSE tokens_val
        last == IF ts_val = NoVal THEN 0 ELSE ts_val
        tokens1 == Min(capacity_ * Resolution, tokens0 + Max(0, now - last) * rate_)
    IN  IF tokens1 < 1 * Resolution
        THEN [tokens |-> tokens1, ts |-> ts_val, res |-> 0]
        ELSE [tokens |-> tokens1 - 1 * Resolution, ts |-> ts_val, res |-> 1]

\* a script that does not count the first second after last
TokensLuaLateRefill(tokens_val, ts_val, rate_, capacity_, now) ==
    LET tokens0 == IF tokens_val = NoVal THEN capacity_ * Resolution ELSE tokens_val
        last == IF ts_val = NoVal THEN 0 ELSE ts_val
        tokens1 == Min(capacity_ * Resolution, tokens0 + Max(0, now - last - 1) * rate_)
    IN  IF tokens1 < 1 * Resolution
        THEN [tokens |-> tokens1, ts |-> now, res |-> 0]
        ELSE [tokens |-> tokens1 - 1 * Resolution, ts |-> now, res |-> 1]

\* TOKENS_LUA run on the two values of one key; rate is in units per second.
\* Returns the values it SETs and its return value (1 allow, 0 deny).
TokensLua(tokens_val, ts_val, rate_, capacity_, now) ==
    LET tokens0 == IF tokens_val = NoVal THEN capacity_ * Resolution ELSE tokens_val
        last == IF ts_val = NoVal THEN 0 ELSE ts_val
        delta == Max(0, now - last)
        add == delta * rate_
        tokens1 == Min(capacity_ * Resolution, tokens0 + add)
    IN  IF tokens1 < 1 * Resolution
        THEN [tokens |-> tokens1, ts |-> now, res |-> 0]
        ELSE [tokens |-> tokens1 - 1 * Resolution, ts |-> now, res |-> 1]

(***************************************************************************)
(* Bounds and configuration of the rate limiter                            *)
(***************************************************************************)
Keys == {"A", "B"}
Callers == {"c1", "c2", "c3"}

\* time.time() when the model starts, and how far the clock advances
StartTime == 1000
MaxTicks == 2

\* check() requests handled one after another, and the seconds that pass
\* around them
MaxRequests == 1
MaxCheckTicks == 1

\* allow_request calls started in the concurrent specification
MaxCalls == 3
\* allow_request calls started in the burst specification
MaxBurstCalls == 64

\* the arguments check() passes to allow_request
CheckRate == 1
CheckCapacity == 60

\* capacities tried, and rates in 1/Resolution tokens per second: none, the
\* smallest fraction, and check()'s rate
MaxCapacity == 2
Rates == {0, 1, CheckRate * Resolution}

VARIABLES
    score_args,     \* compute_score's arguments [hits, email, ip]
    score_ret,      \* what compute_score returned
    action_details, \* what get_action_recommendations returned
    clock,          \* int(time.time())
    rl_tokens,      \* redis: rl:{key}:tokens
    rl_ts,          \* redis: rl:{key}:ts
    rate,           \* the rate argument, in 1/Resolution tokens per second
    capacity,       \* the capacity argument
    caller,         \* per caller of allow_request: pc, key, now, res
    ncalls,         \* history: allow_request calls started
    hist,           \* history: per key, the calls of its first two instants
    redis,          \* routes.redis: "None" or "conn"
    rate_limiter,   \* routes.rate_limiter: "None" or "limiter"
    geo_cache,      \* maxmind_service.cache: ip -> cached lookup result
    blacklist,      \* rows of the Blacklist table
    req,            \* the /v1/check request being handled
    resp,           \* the response returned for it
    event,          \* the persist_check event handed to the job queue
    nreq            \* history: requests started

scoreVars == <<score_args, score_ret, action_details>>
limiterVars == <<clock, rl_tokens, rl_ts, rate, capacity, caller, ncalls, hist>>
checkVars == <<redis, rate_limiter, geo_cache, blacklist, req, resp, event, nreq>>
vars == <<score_args, score_ret, action_details, clock, rl_tokens, rl_ts,
          rate, capacity, caller, ncalls, hist,
          redis, rate_limiter, geo_cache, blacklist, req, resp, event, nreq>>

(***************************************************************************)
(* The scorer as a state machine: arguments in, results out                *)
(***************************************************************************)
NoRet == [done |-> FALSE, score |-> 0, level |-> "", reasons |-> <<>>]
NoDetails == [done |-> FALSE, action |-> "", message |-> "", recommendations |-> <<>>]
NoArgs == [hits |-> <<>>, email |-> None, ip |-> None]

ScoreIdle ==
    /\ score_args = NoArgs
    /\ score_ret = NoRet
    /\ action_details = NoDetails

\* score, level, reasons = compute_score(hits, email, ip)
CallComputeScore ==
    /\ ~score_ret.done
    /\ LET r == ComputeScore(score_args.hits, score_args.email, score_args.ip)
       IN  score_ret' = [done |-> TRUE, score |-> r.score, level |-> r.level,
                         reasons |-> r.reasons]
    /\ UNCHANGED <<score_args, action_details, limiterVars, checkVars>>

\* action_details = get_action_recommendations(score)
CallGetActionRecommendations ==
    /\ score_ret.done
    /\ ~action_details.done
    /\ LET d == GetActionRecommendations(score_ret.score)
       IN  action_details' = [done |-> TRUE, action |-> d.action,
                              message |-> d.message,
                              recommendations |-> d.recommendations]
    /\ UNCHANGED <<score_args, score_ret, limiterVars, checkVars>>

(***************************************************************************)
(* The rate limiter as a state machine                                     *)
(***************************************************************************)
NoHist == [nbatch |-> 0, last |-> 0,
           fnow |-> 0, fcalls |-> 0, fadm |-> 0,
           snow |-> 0, scalls |-> 0, sadm |-> 0]
\* a key called at more than two instants is no longer recorded
PastHist == [NoHist EXCEPT !.nbatch = 3]

\* the history of a key after a call at `now` returned res
Record(h, now, res) ==
    IF h.nbatch = 0
        THEN [h EXCEPT !.nbatch = 1, !.last = now,
                       !.fnow = now, !.fcalls = 1, !.fadm = res]
    ELSE IF h.nbatch = 1 /\ h.last = now
        THEN [h EXCEPT !.fcalls = @ + 1, !.fadm = @ + res]
    ELSE IF h.nbatch = 1
        THEN [h EXCEPT !.nbatch = 2, !.last = now,
                       !.snow = now, !.scalls = 1, !.sadm = res]
    ELSE IF h.nbatch = 2 /\ h.last = now
        THEN [h EXCEPT !.scalls = @ + 1, !.sadm = @ + res]
    ELSE PastHist

IdleCaller == [pc |-> "idle", key |-> "A", now |-> 0, res |-> 0]

LimiterIdle ==
    /\ clock = StartTime
    /\ rl_tokens = [k \in Keys |-> NoVal]
    /\ rl_ts = [k \in Keys |-> NoVal]
    /\ caller = [p \in Callers |-> IdleCaller]
    /\ ncalls = 0
    /\ hist = [k \in Keys |-> NoHist]

\* the wall clock advances by one second
Tick ==
    /\ clock < StartTime + MaxTicks
    /\ clock' = clock + 1
    /\ UNCHANGED <<scoreVars, checkVars, rl_tokens, rl_ts, rate, capacity, caller, ncalls, hist>>

\* allow_request, up to the await: now = int(time.time())
ReadNow(p, k) ==
    /\ caller[p].pc = "idle"
    /\ caller' = [caller EXCEPT ![p] = [pc |-> "eval", key |-> k,
                                        now |-> clock, res |-> 0]]
    /\ ncalls' = ncalls + 1
    /\ UNCHANGED <<scoreVars, checkVars, clock, rl_tokens, rl_ts, rate, capacity, hist>>

\* a limiter that keeps one bucket for all keys
EvalSharedBucket(p) ==
    /\ caller[p].pc = "eval"
    /\ LET k == caller[p].key
           r == TokensLua(rl_tokens[k], rl_ts[k], rate, capacity, caller[p].now)
       IN  /\ rl_tokens' = [x \in Keys |-> r.tokens]
           /\ rl_ts' = [x \in Keys |-> r.ts]
           /\ caller' = [caller EXCEPT ![p].pc = "idle", ![p].res = r.res]
           /\ hist' = [hist EXCEPT ![k] = Record(@, caller[p].now, r.res)]
    /\ UNCHANGED <<scoreVars, checkVars, clock, rate, capacity, ncalls>>

\* allow_request, the await: redis runs TOKENS_LUA atomically
Eval(p) ==
    /\ caller[p].pc = "eval"
    /\ LET k == caller[p].key
           r == TokensLua(rl_tokens[k], rl_ts[k], rate, capacity, caller[p].now)
       IN  /\ rl_tokens' = [rl_tokens EXCEPT ![k] = r.tokens]
           /\ rl_ts' = [rl_ts EXCEPT ![k] = r.ts]
           /\ caller' = [caller EXCEPT ![p].pc = "idle", ![p].res = r.res]
           /\ hist' = [hist EXCEPT ![k] = Record(@, caller[p].now, r.res)]
    /\ UNCHANGED <<scoreVars, checkVars, clock, rate, capacity, ncalls>>

(***************************************************************************)
(* routes.py: the collaborators of check()                                 *)
(***************************************************************************)
Domain_tmp_io == <<"t","m","p",".","i","o">>

\* the redis sets (read-only here)
disposable_email_domains == {Domain_tmp_io}
vpn_ips == {Ip_185}
tor_exit_nodes == {Ip_185}
high_risk_countries == {"KP"}

\* what the MaxMind databases hold: the country code ("" when the address
\* is not found) and whether the ASN data marks a hosting provider or a
\* datacenter
MaxMindData(ip) ==
    IF ip = Ip_185 THEN [country_code |-> "DE", hosting |-> TRUE]
    ELSE IF ip = Ip_203 THEN [country_code |-> "KP", hosting |-> FALSE]
    ELSE [country_code |-> "", hosting |-> FALSE]

\* the API keys verify_api_key can return; org_id "" is an absent org
ApiKeys == {[key_id |-> "A", org_id |-> "org1"], [key_id |-> "B", org_id |-> ""]}

\* payloads offered to check()
CheckEmails == {None, Email_disposable, Email_john}
CheckIps == {None, Ip_185, Ip_203, Ip_8888}

\* values passed to BlacklistCRUD.create: the domain of tmp.io as an
\* operator may type it, and a domain no row holds yet
Domain_tmp_io_typed == <<" ","T","M","P",".","i","o"," ">>
Domain_x_org == <<"x",".","o","r","g">>
CreatedValues == {Domain_tmp_io_typed, Domain_x_org}

\* payload emails that have no "@"
MalformedEmails == {Email_no_at, Email_bare_domain}

\* the Blacklist rows present when the model starts
InitialBlacklist ==
    << [org_id |-> "org1", type |-> "ip", value |-> Ip_185],
       [org_id |-> "org1", type |-> "email_domain", value |-> Domain_tmp_io] >>

\* a handler whose first block does not catch transport errors
CaughtNotTransport(block, exc) == exc # "ConnectionError"

\* a handler whose queue handoff is not guarded
CaughtExceptPersist(block, exc) == block # "persist"

\* handlers that name the redis exceptions instead of Exception
CaughtRedisErrorsOnly(block, exc) ==
    exc \in {"ConnectionError", "RedisError", "HTTPException"}

\* "except Exception" of the try blocks of check(): every exception raised
\* inside them, HTTPException included, derives from Exception
CaughtByExceptException(block, exc) == TRUE

\* _is_valid_ip: ipaddress.ip_address accepts four decimal octets 0..255
IsValidIp(ip) ==
    LET pieces == Split(ip, ".")
    IN  /\ Len(pieces) = 4
        /\ \A i \in 1..4 :
              /\ pieces[i] # <<>>
              /\ Run(pieces[i], 1, Len(pieces[i]), IsDigit)
              /\ DecValue(pieces[i]) <= 255
              /\ (Len(pieces[i]) > 1 => pieces[i][1] # "0")

\* payload.email.split("@")[-1].lower()
EmailDomain(email) ==
    LET pieces == Split(email, "@")
    IN  Lower(pieces[Len(pieces)])

\* the values above on the payloads of the model, computed once
ValidIpMemo == [ip \in CheckIps |-> IsValidIp(ip)]
ValidIp(ip) == ValidIpMemo[ip]
EmailDomainMemo == [e \in CheckEmails \cup MalformedEmails |-> EmailDomain(e)]
DomainOf(email) == EmailDomainMemo[email]

\* value.lower().strip() of is_blacklisted, on the values looked up
LookupValueMemo ==
    [v \in CheckIps \cup CreatedValues
            \cup {EmailDomain(e) : e \in CheckEmails \cup MalformedEmails} |->
        Strip(Lower(v))]
LookupValue(value) == LookupValueMemo[value]

\* BlacklistCRUD.create: one more row, whatever rows exist
BlacklistCreate(org_id, type_, value) ==
    /\ req.pc \in {"idle", "done"}
    /\ blacklist' = Append(blacklist, [org_id |-> org_id, type |-> type_,
                                       value |-> LookupValue(value)])
    /\ UNCHANGED <<scoreVars, limiterVars, redis, rate_limiter, geo_cache,
                   req, resp, event, nreq>>

\* BlacklistCRUD.is_blacklisted: "raise" is scalar_one_or_none() finding
\* more than one row
IsBlacklisted(rows, org_id, type_, value) ==
    LET v == LookupValue(value)
        n == Cardinality({i \in DOMAIN rows :
                 rows[i].org_id = org_id /\ rows[i].type = type_ /\ rows[i].value = v})
    IN  IF n = 0 THEN "no" ELSE IF n = 1 THEN "yes" ELSE "raise"

\* _lookup_ip_sync with _analyze_ip_characteristics; fail is "none", "geo"
\* (the lookup ends in an error result) or "high_risk_set" (the redis lookup
\* of high_risk_countries raises and is swallowed)
LookupIpSync(ip, fail) ==
    IF fail = "geo"
    THEN [error |-> TRUE, is_high_risk_country |-> FALSE, is_hosting_provider |-> FALSE]
    ELSE LET d == MaxMindData(ip)
         IN  [error |-> FALSE,
              is_high_risk_country |->
                  /\ d.country_code # ""
                  /\ fail # "high_risk_set"
                  /\ d.country_code \in high_risk_countries,
              is_hosting_provider |-> d.hosting]

\* get_ip_info's result for ip given the cache
GetIpInfo(cache, ip, fail) ==
    IF ~Truthy(ip) \/ ~ValidIp(ip)
    THEN [error |-> TRUE, is_high_risk_country |-> FALSE, is_hosting_provider |-> FALSE]
    ELSE IF ip \in DOMAIN cache THEN cache[ip]
    ELSE LookupIpSync(ip, fail)

\* get_ip_info's cache afterwards: results without an error are kept
CacheAfter(cache, ip, fail) ==
    IF ~Truthy(ip) \/ ~ValidIp(ip) \/ ip \in DOMAIN cache THEN cache
    ELSE LET r == LookupIpSync(ip, fail)
         IN  IF r.error THEN cache
             ELSE [x \in DOMAIN cache \cup {ip} |-> IF x = ip THEN r ELSE cache[x]]

(***************************************************************************)
(* routes.py: check(), one action per block of the handler                 *)
(***************************************************************************)
NoRequest == [pc |-> "idle", api_key |-> [key_id |-> "A", org_id |-> ""],
              ip |-> None, email |-> None, hits |-> <<>>,
              limited |-> "", failed |-> {}, looked |-> {}]
NoResponse == [status |-> 0, risk_score |-> 0, risk_level |-> "", reasons |-> <<>>,
               action |-> "", message |-> "", explanation |-> <<>>,
               recommendations |-> <<>>]
NoEvent == [sent |-> FALSE, org_id |-> "", ip |-> None, email |-> None,
            risk_score |-> 0, action |-> ""]

CheckIdle ==
    /\ redis = "None"
    /\ rate_limiter = "None"
    /\ geo_cache = <<>>
    /\ blacklist = InitialBlacklist
    /\ req = NoRequest
    /\ resp = NoResponse
    /\ event = NoEvent
    /\ nreq = 0

\* a request arrives, authenticated as api_key
StartRequest(api_key, ip, email) ==
    /\ req.pc \in {"idle", "done"}
    /\ req' = [NoRequest EXCEPT !.pc = "rate_limit", !.api_key = api_key,
                                !.ip = ip, !.email = email]
    /\ resp' = NoResponse
    /\ event' = NoEvent
    /\ nreq' = nreq + 1
    /\ UNCHANGED <<scoreVars, limiterVars, redis, rate_limiter, geo_cache, blacklist>>

\* the response of a request that an uncaught exception ends: HTTPException
\* carries its status, anything else is a server error
ErrorResponse(exc) ==
    [NoResponse EXCEPT !.status = IF exc = "HTTPException" THEN 429 ELSE 500]

\* 1) rate limiting; fail: the redis call of allow_request raises
RateLimit(fail) ==
    /\ req.pc = "rate_limit"
    /\ IF rate_limiter = "None"
       THEN /\ fail = FALSE
            /\ req' = [req EXCEPT !.pc = "redis_checks", !.limited = "no_limiter"]
            /\ UNCHANGED <<rl_tokens, rl_ts, resp>>
       ELSE LET k == req.api_key.key_id
                r == TokensLua(rl_tokens[k], rl_ts[k], CheckRate * Resolution,
                               CheckCapacity, clock)
                exc == IF fail THEN "ConnectionError"
                       ELSE IF r.res = 0 THEN "HTTPException"
                       ELSE "none"
                outcome == IF fail THEN "error"
                           ELSE IF r.res = 0 THEN "deny" ELSE "allow"
                escapes == exc # "none" /\ ~CaughtByExceptException("rate_limit", exc)
            IN  /\ IF fail THEN UNCHANGED <<rl_tokens, rl_ts>>
                   ELSE /\ rl_tokens' = [rl_tokens EXCEPT ![k] = r.tokens]
                        /\ rl_ts' = [rl_ts EXCEPT ![k] = r.ts]
                /\ req' = [req EXCEPT
                       !.pc = IF escapes THEN "done" ELSE "redis_checks",
                       !.limited = outcome,
                       !.failed = IF fail THEN @ \cup {"rate_limiter"} ELSE @]
                /\ resp' = IF escapes THEN ErrorResponse(exc) ELSE resp
    /\ UNCHANGED <<scoreVars, clock, rate, capacity, caller, ncalls, hist,
                   redis, rate_limiter, geo_cache, blacklist, event, nreq>>

\* the lookups a try block has made when it is left at failAt: all of them
\* when none raises, else those up to and including the one that raises
LookupsMade(lookups, failAt) ==
    {lookups[i] : i \in {j \in DOMAIN lookups :
                            \A k \in 1..(j - 1) : lookups[k] # failAt}}

\* block 2 asking tor_exit_nodes before vpn_ips
RedisLookupsTorFirst(email, ip) ==
       (IF Truthy(email) THEN <<"disposable">> ELSE <<>>)
    \o (IF Truthy(ip) THEN <<"tor", "vpn">> ELSE <<>>)

\* block 2 without its "if payload.email" and "if payload.ip" guards
RedisLookupsUnguarded(email, ip) == <<"disposable", "vpn", "tor">>

\* the lookups of block 2 that are made for a payload, in order
RedisLookups(email, ip) ==
       (IF Truthy(email) THEN <<"disposable">> ELSE <<>>)
    \o (IF Truthy(ip) THEN <<"vpn", "tor">> ELSE <<>>)

\* the sismember result of one redis source
RedisMember(source, email, ip) ==
    CASE source = "disposable" -> DomainOf(email) \in disposable_email_domains
      [] source = "vpn" -> ip \in vpn_ips
      [] source = "tor" -> ip \in tor_exit_nodes

TagOf(source) ==
    CASE source = "disposable" -> "disposable_email"
      [] source = "vpn" -> "vpn_ip"
      [] source = "tor" -> "tor_exit"
      [] source = "geo" -> "high_risk_country"
      [] source = "bl_ip" -> "custom_blacklist"
      [] source = "bl_email" -> "custom_blacklist"

\* the hits appended by a try block that makes `lookups` in order and is
\* left at the first lookup that raises (failAt, "none" for no failure)
\* hit[s] is the answer of source s
RECURSIVE HitsUntilRaise(_, _, _)
HitsUntilRaise(lookups, failAt, hit) ==
    IF lookups = <<>> \/ Head(lookups) = failAt THEN <<>>
    ELSE (IF hit[Head(lookups)] THEN <<TagOf(Head(lookups))>> ELSE <<>>)
         \o HitsUntilRaise(Tail(lookups), failAt, hit)

\* 2) redis set lookups; failAt: the lookup that raises
RedisChecks(failAt) ==
    /\ req.pc = "redis_checks"
    /\ IF redis = "None"
       THEN /\ failAt = "none"
            /\ req' = [req EXCEPT !.pc = "geolocation"]
            /\ resp' = resp
       ELSE LET lookups == RedisLookups(req.email, req.ip)
                hit == [src \in Range(lookups) |-> RedisMember(src, req.email, req.ip)]
                escapes == failAt # "none"
                           /\ ~CaughtByExceptException("redis_checks", "RedisError")
            IN  /\ failAt \in {"none"} \cup Range(lookups)
                /\ req' = [req EXCEPT
                       !.pc = IF escapes THEN "done" ELSE "geolocation",
                       !.hits = @ \o HitsUntilRaise(lookups, failAt, hit),
                       !.failed = IF failAt = "none" THEN @ ELSE @ \cup {failAt},
                       !.looked = @ \cup LookupsMade(lookups, failAt)]
                /\ resp' = IF escapes THEN ErrorResponse("RedisError") ELSE resp
    /\ UNCHANGED <<scoreVars, limiterVars, redis, rate_limiter, geo_cache,
                   blacklist, event, nreq>>

\* 2.5) geolocation; fail: "none", "geo" or "high_risk_set".  Every failure
\* inside enhanced_ip_check ends in an error result, never in an exception.
Geolocation(fail) ==
    /\ req.pc = "geolocation"
    /\ IF ~Truthy(req.ip)
       THEN /\ fail = "none"
            /\ req' = [req EXCEPT !.pc = "blacklist"]
            /\ geo_cache' = geo_cache
       ELSE LET looksUp == ValidIp(req.ip) /\ req.ip \notin DOMAIN geo_cache
                info == GetIpInfo(geo_cache, req.ip, fail)
            IN  /\ (fail # "none" => looksUp)
                /\ (fail = "high_risk_set" => MaxMindData(req.ip).country_code # "")
                /\ geo_cache' = CacheAfter(geo_cache, req.ip, fail)
                /\ req' = [req EXCEPT
                       !.pc = "blacklist",
                       !.hits = @
                           \o (IF ~info.error /\ info.is_high_risk_country
                               THEN <<"high_risk_country">> ELSE <<>>)
                           \o (IF ~info.error /\ info.is_hosting_provider
                               THEN <<"bad_isp">> ELSE <<>>),
                       !.failed = IF fail = "none" THEN @ ELSE @ \cup {fail},
                       !.looked = @ \cup {"geo"}]
    /\ UNCHANGED <<scoreVars, limiterVars, redis, rate_limiter, blacklist,
                   resp, event, nreq>>

\* the lookups of block 3 that are made for a payload, in order
BlacklistLookups(email, ip) ==
       (IF Truthy(ip) THEN <<"bl_ip">> ELSE <<>>)
    \o (IF Truthy(email) THEN <<"bl_email">> ELSE <<>>)

\* is_blacklisted for one blacklist source
BlacklistAnswer(rows, org_id, source, email, ip) ==
    IF source = "bl_ip"
    THEN IsBlacklisted(rows, org_id, "ip", ip)
    ELSE IsBlacklisted(rows, org_id, "email_domain", DomainOf(email))

\* the first lookup of block 3 at which is_blacklisted itself raises
FirstRaise(rows, org_id, lookups, email, ip) ==
    IF \E i \in DOMAIN lookups :
           BlacklistAnswer(rows, org_id, lookups[i], email, ip) = "raise"
    THEN lookups[CHOOSE i \in DOMAIN lookups :
           /\ BlacklistAnswer(rows, org_id, lookups[i], email, ip) = "raise"
           /\ \A j \in 1..(i - 1) :
                 BlacklistAnswer(rows, org_id, lookups[j], email, ip) # "raise"]
    ELSE "none"

\* 3) organization blacklists; failAt: the lookup whose query raises
Blacklist(failAt) ==
    /\ req.pc = "blacklist"
    /\ IF req.api_key.org_id = ""
       THEN /\ failAt = "none"
            /\ req' = [req EXCEPT !.pc = "respond"]
            /\ resp' = resp
       ELSE LET org == req.api_key.org_id
                lookups == BlacklistLookups(req.email, req.ip)
                hit == [src \in Range(lookups) |->
                           BlacklistAnswer(blacklist, org, src, req.email, req.ip) = "yes"]
                own == FirstRaise(blacklist, org, lookups, req.email, req.ip)
                \* the block is left at the earlier of the injected failure
                \* and the lookup that raises by itself
                before(a, b) == \E i, j \in DOMAIN lookups :
                                   lookups[i] = a /\ lookups[j] = b /\ i <= j
                stop == IF failAt = "none" THEN own
                        ELSE IF own = "none" THEN failAt
                        ELSE IF before(failAt, own) THEN failAt ELSE own
                escapes == stop # "none"
                           /\ ~CaughtByExceptException("blacklist", "SQLAlchemyError")
            IN  /\ failAt \in {"none"} \cup Range(lookups)
                /\ req' = [req EXCEPT
                       !.pc = IF escapes THEN "done" ELSE "respond",
                       !.hits = @ \o HitsUntilRaise(lookups, stop, hit),
                       !.failed = IF stop = "none" THEN @ ELSE @ \cup {stop},
                       !.looked = @ \cup LookupsMade(lookups, stop)]
                /\ resp' = IF escapes THEN ErrorResponse("SQLAlchemyError") ELSE resp
    /\ UNCHANGED <<scoreVars, limiterVars, redis, rate_limiter, geo_cache,
                   blacklist, event, nreq>>

\* 4) and 5) score, build the result, hand the event to the queue, return;
\* fail: persist_check.delay raises
Respond(fail) ==
    /\ req.pc = "respond"
    /\ \E r \in {ComputeScore(req.hits, req.email, req.ip)} :
       \E d \in {GetActionRecommendations(r.score)} :
       LET escapes == fail /\ ~CaughtByExceptException("persist", "OperationalError")
       IN  /\ resp' = IF escapes THEN ErrorResponse("OperationalError")
                      ELSE [status |-> 200, risk_score |-> r.score,
                            risk_level |-> r.level, reasons |-> r.reasons,
                            action |-> d.action, message |-> d.message,
                            explanation |-> GetRiskExplanation(r.score, r.level),
                            recommendations |-> d.recommendations]
           /\ event' = IF fail THEN event
                       ELSE [sent |-> TRUE, org_id |-> req.api_key.org_id,
                             ip |-> req.ip, email |-> req.email,
                             risk_score |-> r.score, action |-> d.action]
    /\ req' = [req EXCEPT !.pc = "done",
                          !.failed = IF fail THEN @ \cup {"queue"} ELSE @]
    /\ UNCHANGED <<scoreVars, limiterVars, redis, rate_limiter, geo_cache,
                   blacklist, nreq>>

(***************************************************************************)
(* Specifications                                                          *)
(***************************************************************************)
\* the scorer on every offered input
InitScore ==
    /\ CheckIdle
    /\ score_args \in [hits : SeqsUpTo(HitTags, MaxHits),
                       email : ScoreEmails, ip : ScoreIps]
    /\ score_ret = NoRet
    /\ action_details = NoDetails
    /\ LimiterIdle
    /\ rate = CheckRate * Resolution
    /\ capacity = CheckCapacity

NextScore == CallComputeScore \/ CallGetActionRecommendations

SpecScore == InitScore /\ [][NextScore]_vars

\* concurrent callers of allow_request on fresh keys
InitLimiter ==
    /\ CheckIdle
    /\ ScoreIdle
    /\ LimiterIdle
    /\ rate \in Rates
    /\ capacity \in 0..MaxCapacity

NextLimiter ==
    \/ Tick
    \/ \E p \in Callers, k \in Keys : ncalls < MaxCalls /\ ReadNow(p, k)
    \/ \E p \in Callers : Eval(p)

SpecLimiter == InitLimiter /\ [][NextLimiter]_vars

\* one caller calling allow_request on one key with check()'s arguments
InitBurst ==
    /\ CheckIdle
    /\ ScoreIdle
    /\ LimiterIdle
    /\ rate = CheckRate * Resolution
    /\ capacity = CheckCapacity

NextBurst ==
    \/ Tick
    \/ ncalls < MaxBurstCalls /\ ReadNow("c1", "A")
    \/ Eval("c1")

SpecBurst == InitBurst /\ [][NextBurst]_vars

\* check() requests handled one after another.  The process is past startup
\* (redis and the limiter both exist or both are None) and the bucket of
\* key A is fresh or in a state a burst leaves it in: 0 or 1 token, last
\* refilled now.
InitCheck ==
    /\ ScoreIdle
    /\ clock = StartTime
    /\ \E t \in {NoVal, 0, 1 * Resolution} :
          /\ rl_tokens = [k \in Keys |-> IF k = "A" THEN t ELSE NoVal]
          /\ rl_ts = [k \in Keys |-> IF k = "A" /\ t # NoVal THEN StartTime ELSE NoVal]
    /\ rate = CheckRate * Resolution
    /\ capacity = CheckCapacity
    /\ caller = [p \in Callers |-> IdleCaller]
    /\ ncalls = 0
    /\ hist = [k \in Keys |-> NoHist]
    /\ \E up \in BOOLEAN :
          /\ redis = IF up THEN "conn" ELSE "None"
          /\ rate_limiter = IF up THEN "limiter" ELSE "None"
    /\ geo_cache = <<>>
    /\ blacklist = InitialBlacklist
    /\ req = NoRequest
    /\ resp = NoResponse
    /\ event = NoEvent
    /\ nreq = 0

Step ==
    \/ \E fail \in BOOLEAN : RateLimit(fail)
    \/ \E failAt \in {"none", "disposable", "vpn", "tor"} : RedisChecks(failAt)
    \/ \E fail \in {"none", "geo", "high_risk_set"} : Geolocation(fail)
    \/ \E failAt \in {"none", "bl_ip", "bl_email"} : Blacklist(failAt)
    \/ \E fail \in BOOLEAN : Respond(fail)

\* check() reads the clock in its first block only, so the seconds that
\* pass while a request is handled are taken before the next one starts
NextCheck ==
    \/ req.pc \in {"idle", "done"} /\ clock < StartTime + MaxCheckTicks /\ Tick
    \/ \E k \in ApiKeys, ip \in CheckIps, email \in CheckEmails :
          nreq < MaxRequests /\ StartRequest(k, ip, email)
    \/ Step

SpecCheck == InitCheck /\ [][NextCheck]_vars

\* the event loop resumes a request whose awaited call has returned or raised
FairCheck == SpecCheck /\ WF_vars(Step)

\* check() on payloads whose email has no "@"
NextMalformed ==
    \/ req.pc \in {"idle", "done"} /\ clock < StartTime + MaxCheckTicks /\ Tick
    \/ \E k \in ApiKeys, ip \in {None, Ip_8888}, email \in MalformedEmails :
          nreq < MaxRequests /\ StartRequest(k, ip, email)
    \/ Step

SpecMalformed == InitCheck /\ [][NextMalformed]_vars

\* requests of one process that carry an ip only, one after another
MaxGeoRequests == 2

\* check() called again and again in one process, whose geolocation cache
\* lives as long as the process
NextGeo ==
    \/ \E k \in ApiKeys, ip \in {Ip_185, Ip_203} :
          nreq < MaxGeoRequests /\ StartRequest(k, ip, None)
    \/ Step

SpecGeo == InitCheck /\ [][NextGeo]_vars

\* calls of BlacklistCRUD.create
MaxCreates == 2

\* an organization's blacklist is extended while its requests are checked
NextBlacklist ==
    \/ \E value \in CreatedValues :
          /\ Len(blacklist) < Len(InitialBlacklist) + MaxCreates
          /\ BlacklistCreate("org1", "email_domain", value)
    \/ \E k \in ApiKeys, email \in {Email_disposable, Email_john} :
          nreq < MaxRequests /\ StartRequest(k, None, email)
    \/ Step

SpecBlacklist == InitCheck /\ [][NextBlacklist]_vars

(***************************************************************************)
(* The scorer: properties                                                  *)
(***************************************************************************)
\* C7: compute_score returns an integer score in 0..100 for every hit list,
\* email and ip; for no hits, no email and no ip it returns 0, "none", [].
C7_ScoreBounded ==
    score_ret.done =>
        /\ score_ret.score \in 0..100
        /\ (score_args = NoArgs =>
                /\ score_ret.score = 0
                /\ score_ret.level = "none"
                /\ score_ret.reasons = <<>>)

\* an evaluation whose uncapped total exceeds 100 has returned
C7_Witness ==
    /\ score_ret.done
    /\ RawScore(score_args.hits,
                IF Truthy(score_args.email) THEN EmailAnalysis(score_args.email) ELSE NoAnalysis,
                IF Truthy(score_args.ip) THEN IpAnalysis(score_args.ip) ELSE NoAnalysis) > 100
    /\ score_ret.score = 100

LevelActionPairs ==
    {<<"high", "block">>, <<"medium", "challenge">>,
     <<"low", "monitor">>, <<"none", "allow">>}

\* C8: level and action follow the same four inclusive thresholds of the
\* capped score: >= 80 high/block, 60..79 medium/challenge, 30..59
\* low/monitor, 0..29 none/allow; no level is paired with another's action.
C8_LevelActionAgree ==
    (score_ret.done /\ action_details.done) =>
        LET sc == score_ret.score
            pair == <<score_ret.level, action_details.action>>
        IN  /\ pair \in LevelActionPairs
            /\ sc >= 80 => pair = <<"high", "block">>
            /\ (60 <= sc /\ sc <= 79) => pair = <<"medium", "challenge">>
            /\ (30 <= sc /\ sc <= 59) => pair = <<"low", "monitor">>
            /\ (0 <= sc /\ sc <= 29) => pair = <<"none", "allow">>

\* an evaluation on the lowest threshold has its level and its action
C8_Witness ==
    /\ score_ret.done
    /\ action_details.done
    /\ score_ret.score = 30
    /\ score_ret.level = "low"
    /\ action_details.action = "monitor"

CountOf(hits, t) == Cardinality({i \in DOMAIN hits : hits[i] = t})

\* the weight table applied to the number of occurrences of each of its tags
TableTotal(hits) ==
      70 * CountOf(hits, "disposable_email")
    + 45 * CountOf(hits, "vpn_ip")
    + 85 * CountOf(hits, "tor_exit")
    + 35 * CountOf(hits, "bad_isp")
    + 25 * CountOf(hits, "high_risk_country")
    + 30 * CountOf(hits, "multiple_from_ip")
    + 100 * CountOf(hits, "custom_blacklist")
    + 40 * CountOf(hits, "suspicious_email_pattern")
    + 20 * CountOf(hits, "new_domain")
    + 10 * CountOf(hits, "free_email")

\* C10: with email and ip absent the score is min(100, sum of the table
\* weights of the hits, duplicates counted, tags outside the table weighing
\* 0) and reasons equals hits element for element.
C10_HitsOnlyScore ==
    (score_ret.done /\ score_args.email = None /\ score_args.ip = None) =>
        /\ score_ret.score = Min(100, TableTotal(score_args.hits))
        /\ score_ret.reasons = score_args.hits

\* a repeated table tag and, in another run, an unknown tag: this state has
\* a duplicate whose weights add below the cap
C10_Witness ==
    /\ score_ret.done
    /\ score_args.email = None
    /\ score_args.ip = None
    /\ score_args.hits = <<"high_risk_country", "high_risk_country">>
    /\ score_ret.score = 50
    /\ score_ret.reasons = <<"high_risk_country", "high_risk_country">>

\* an unknown tag is kept in reasons and adds nothing
C10_WitnessUnknown ==
    /\ score_ret.done
    /\ score_args.email = None
    /\ score_args.ip = None
    /\ score_args.hits = <<"unknown_indicator", "disposable_email">>
    /\ score_ret.score = 70
    /\ score_ret.reasons = <<"unknown_indicator", "disposable_email">>

(***************************************************************************)
(* The rate limiter: properties                                            *)
(***************************************************************************)
\* C1: the calls made so far on a fresh key, all with the same `now`, admit
\* exactly min(N, K) of the N calls for capacity K, whatever the order in
\* which the concurrent callers read the clock and reach the store.
C1_AdmitsMinNK ==
    \A k \in Keys :
        hist[k].nbatch = 1 => hist[k].fadm = Min(hist[k].fcalls, capacity)

\* three callers have each completed one call on key A with the same now,
\* with capacity 2: two were admitted
C1_Witness ==
    /\ capacity = 2
    /\ hist["A"].nbatch = 1
    /\ hist["A"].fcalls = 3
    /\ hist["A"].fadm = 2
    /\ hist["B"].nbatch = 0
    /\ \A p \in Callers :
          caller[p].pc = "idle" /\ caller[p].key = "A" /\ caller[p].now = hist["A"].fnow
    /\ Cardinality({p \in Callers : caller[p].res = 1}) = 2

\* C3: with capacity 60 and rate 1.0 the first 60 calls at one instant on a
\* fresh key are allowed and every further call at that instant is denied;
\* when the next calls come 2 seconds after 61 or more such calls, exactly 2
\* of them are allowed before the next is denied.
C3_BurstThenRefill ==
    LET h == hist["A"]
    IN  /\ h.nbatch \in {1, 2} => h.fadm = Min(h.fcalls, 60)
        /\ (h.nbatch = 2 /\ h.fcalls >= 61 /\ h.snow = h.fnow + 2)
               => h.sadm = Min(h.scalls, 2)

\* 61 calls at one instant (60 allowed), then 3 calls two seconds later (2
\* allowed)
C3_Witness ==
    LET h == hist["A"]
    IN  /\ h.nbatch = 2
        /\ h.fcalls = 61 /\ h.fadm = 60
        /\ h.snow = h.fnow + 2
        /\ h.scalls = 3 /\ h.sadm = 2

(***************************************************************************)
(* check(): properties                                                     *)
(***************************************************************************)
\* C2: a request the rate limiter denies is rejected with HTTP 429: it
\* collects no signal, is not scored, hands no event to the queue and gets
\* no risk result.
C2_DeniedIsRejected ==
    req.limited = "deny" =>
        /\ req.pc = "done"
        /\ resp.status = 429
        /\ req.hits = <<>>
        /\ ~event.sent

Levels == {"none", "low", "medium", "high"}

\* C4: when allow_request raises a transport error, or no limiter exists
\* because the connection failed at startup, the request is never rejected
\* and ends with a scored result.
C4_FailOpen ==
    req.limited \in {"error", "no_limiter"} =>
        /\ resp.status \notin {429, 500}
        /\ req.pc = "done" =>
              /\ resp.status = 200
              /\ resp.risk_level \in Levels
              /\ Len(resp.reasons) >= Len(req.hits)

\* a request whose limiter call raised has been answered with a result built
\* from collected hits
C4_Witness ==
    /\ req.pc = "done"
    /\ req.limited = "error"
    /\ "rate_limiter" \in req.failed
    /\ resp.status = 200
    /\ req.hits # <<>>

\* the six indicator sources of check()
IndicatorSources == {"disposable", "vpn", "tor", "geo", "bl_ip", "bl_email"}

\* the tags a source contributes when its own lookup, made for the current
\* request, succeeds
OwnHits(source) ==
    CASE source \in {"disposable", "vpn", "tor"} ->
            IF /\ redis = "conn"
               /\ source \in Range(RedisLookups(req.email, req.ip))
               /\ RedisMember(source, req.email, req.ip)
            THEN {TagOf(source)} ELSE {}
      [] source = "geo" ->
            IF ~Truthy(req.ip) THEN {}
            ELSE LET info == GetIpInfo(geo_cache, req.ip, "none")
                 IN  (IF ~info.error /\ info.is_high_risk_country
                      THEN {"high_risk_country"} ELSE {})
                     \cup (IF ~info.error /\ info.is_hosting_provider
                           THEN {"bad_isp"} ELSE {})
      [] source \in {"bl_ip", "bl_email"} ->
            IF /\ req.api_key.org_id # ""
               /\ source \in Range(BlacklistLookups(req.email, req.ip))
               /\ BlacklistAnswer(blacklist, req.api_key.org_id, source,
                                  req.email, req.ip) = "yes"
            THEN {TagOf(source)} ELSE {}

\* C5: when exactly one indicator source lookup fails on a request, the
\* collection does not raise and the hits contain the hit of every other
\* source whose own lookup succeeds with a hit.
C5_OneFailureKeepsOthers ==
    (req.pc = "done" /\ \E s \in IndicatorSources : req.failed = {s}) =>
        /\ resp.status = 200
        /\ \A s2 \in IndicatorSources \ req.failed :
              OwnHits(s2) \subseteq Range(req.hits)

RECURSIVE IsSubSeq(_, _)
IsSubSeq(a, b) ==
    IF a = <<>> THEN TRUE
    ELSE IF b = <<>> THEN FALSE
    ELSE IF Head(a) = Head(b) THEN IsSubSeq(Tail(a), Tail(b))
    ELSE IsSubSeq(a, Tail(b))

\* the hits of the current request had every lookup succeeded
AllHits ==
       (IF redis = "conn"
        THEN HitsUntilRaise(RedisLookups(req.email, req.ip), "none",
                 [src \in {"disposable", "vpn", "tor"} |->
                     /\ src \in Range(RedisLookups(req.email, req.ip))
                     /\ RedisMember(src, req.email, req.ip)])
        ELSE <<>>)
    \o (IF "high_risk_country" \in OwnHits("geo") THEN <<"high_risk_country">> ELSE <<>>)
    \o (IF "bad_isp" \in OwnHits("geo") THEN <<"bad_isp">> ELSE <<>>)
    \o (IF OwnHits("bl_ip") # {} THEN <<"custom_blacklist">> ELSE <<>>)
    \o (IF OwnHits("bl_email") # {} THEN <<"custom_blacklist">> ELSE <<>>)

\* C6: every request that entered check() eventually completes with a
\* response, whichever collaborators fail; no failure aborts it (a server
\* error), and failures only remove hits from those a run without failures
\* collects.
C6_AlwaysCompletes ==
    /\ (req.pc = "rate_limit") ~> (req.pc = "done" /\ resp.status \in {200, 429})
    /\ [](resp.status # 500)
    /\ [](req.pc = "done" => IsSubSeq(req.hits, AllHits))

\* a request is answered although the limiter, a redis set, the geolocation
\* lookup, the blacklist query and the job queue all failed
C6_Witness ==
    /\ req.pc = "done"
    /\ resp.status = 200
    /\ req.failed = {"rate_limiter", "disposable", "geo", "bl_ip", "queue"}

C12_TestBoundaryWeights ==
    (score_ret.done /\ score_args.email = None /\ score_args.ip = None) =>
        /\ score_args.hits = <<"vpn_ip">> =>
              /\ score_ret.score = 60
              /\ score_ret.level = "medium"
        /\ score_args.hits = <<"tor_exit">> =>
              /\ score_ret.score = 80
              /\ score_ret.level = "high"

\* C13: for hits ["disposable_email", "vpn_ip"] with no email and no ip the
\* score equals WEIGHTS["disposable_email"] + WEIGHTS["vpn_ip"] and is at
\* most 100, the level is "high" and the set of reasons is the set of hits.
C13_TwoHitsSumWithinCap ==
    (/\ score_ret.done
     /\ score_args = [hits |-> <<"disposable_email", "vpn_ip">>,
                      email |-> None, ip |-> None]) =>
        /\ score_ret.score = WEIGHTS["disposable_email"] + WEIGHTS["vpn_ip"]
        /\ score_ret.score <= 100
        /\ score_ret.level = "high"
        /\ Range(score_ret.reasons) = Range(score_args.hits)

\* the order in which the two analyses may append their tags
PatternReasonOrder ==
    <<"free_email", "suspicious_email_pattern", "short_email_local",
      "long_email_local", "excessive_numbers_email",
      "private_ip", "suspicious_ip_range">>

\* C14: reasons is the input hits in their original order, then the
\* triggered email tags in the order free_email, suspicious_email_pattern,
\* short_email_local, long_email_local, excessive_numbers_email, then the
\* triggered ip tags in the order private_ip, suspicious_ip_range; the
\* caller's hit list is never modified.
C14_ReasonsOrder ==
    /\ [](score_ret.done =>
            LET n == Len(score_args.hits)
                reasons == score_ret.reasons
            IN  /\ Len(reasons) >= n
                /\ SubSeq(reasons, 1, n) = score_args.hits
                /\ IsSubSeq(SubSeq(reasons, n + 1, Len(reasons)),
                            PatternReasonOrder))
    /\ [][score_args' = score_args]_vars

\* a hit, two email tags and an ip tag in one result
C14_Witness ==
    /\ score_ret.done
    /\ score_args = [hits |-> <<"vpn_ip">>, email |-> Email_a1_gmail, ip |-> Ip_10]
    /\ score_ret.reasons =
          <<"vpn_ip", "free_email", "short_email_local", "private_ip">>

\* C15: for every email the analysis adds the suspicious_email_pattern
\* weight (40) and the reason "suspicious_email_pattern" at most once,
\* however many patterns the address matches; "test12345@x.com" triggers it
\* exactly once.
C15_SuspiciousPatternOnce ==
    score_ret.done =>
        LET reasons == score_ret.reasons
            n == CountOf(reasons, "suspicious_email_pattern")
            others == Cardinality({i \in DOMAIN reasons :
                                     reasons[i] # "suspicious_email_pattern"})
        IN  /\ n <= 1
            /\ (score_args.hits = <<>> /\ score_args.ip = None) =>
                  /\ score_ret.score >= 40 * n
                  /\ score_ret.score <= 40 * n + 20 * others
                  /\ score_args.email = Email_test12345 =>
                        /\ n = 1
                        /\ score_ret.score = 40 + 20
                        /\ reasons = <<"suspicious_email_pattern",
                                       "excessive_numbers_email">>

\* test12345@x.com, which matches the first and the fifth pattern, is scored
C15_Witness ==
    /\ score_ret.done
    /\ score_args = [hits |-> <<>>, email |-> Email_test12345, ip |-> None]
    /\ MatchPattern(1, Email_test12345)
    /\ MatchPattern(5, Email_test12345)
    /\ CountOf(score_ret.reasons, "suspicious_email_pattern") = 1

\* C16: for an email containing "@", a case-folded domain in the
\* free-provider set adds 10 and free_email, a local part of length <= 2
\* adds 15 and short_email_local, a local part of length >= 30 adds 10 and
\* long_email_local, and >= 5 digits in the local part add 20 and
\* excessive_numbers_email, each independently of the others; a1@gmail.com
\* triggers both free_email and short_email_local.
C16_EmailChecksIndependent ==
    (/\ score_ret.done
     /\ score_args.hits = <<>>
     /\ score_args.ip = None
     /\ Truthy(score_args.email)
     /\ Contains(score_args.email, "@")) =>
        LET email == score_args.email
            at == IndexOf(email, "@")
            digits == Cardinality({i \in 1..(at - 1) : email[i] \in DigitSet})
            folded == [i \in 1..(Len(email) - at) |-> LowerChar(email[at + i])]
            tags == Range(score_ret.reasons)
            Adds(tag, weight) == IF tag \in tags THEN weight ELSE 0
        IN  /\ "free_email" \in tags <=> folded \in FREE_EMAIL_PROVIDERS
            /\ "short_email_local" \in tags <=> at - 1 <= 2
            /\ "long_email_local" \in tags <=> at - 1 >= 30
            /\ "excessive_numbers_email" \in tags <=> digits >= 5
            /\ score_ret.score = Adds("free_email", 10)
                               + Adds("suspicious_email_pattern", 40)
                               + Adds("short_email_local", 15)
                               + Adds("long_email_local", 10)
                               + Adds("excessive_numbers_email", 20)
            /\ email = Email_a1_gmail =>
                  score_ret.reasons = <<"free_email", "short_email_local">>
            /\ email = Email_Bob_GMAIL => score_ret.reasons = <<"free_email">>

\* a1@gmail.com is scored with both of its tags
C16_Witness ==
    /\ score_ret.done
    /\ score_args = [hits |-> <<>>, email |-> Email_a1_gmail, ip |-> None]
    /\ score_ret.score = 25
    /\ score_ret.reasons = <<"free_email", "short_email_local">>

\* C17: the ip analysis adds 50 and private_ip exactly when the dotted-quad
\* ip lies in 10/8, 172.16/12, 192.168/16 or 127/8, and adds 25 and
\* suspicious_ip_range exactly when its first three octets are one of the
\* fixed prefixes; 10.0.0.5 triggers private_ip and 8.8.8.8 neither tag; an
\* ip that is not four integer octets (each 0..255) triggers neither.
C17_IpRangeTags ==
    (/\ score_ret.done
     /\ score_args.hits = <<>>
     /\ score_args.email = None
     /\ Truthy(score_args.ip)) =>
        \E p \in {IpParts(score_args.ip)} :
            LET o == p.parts
                quad == /\ p.ok
                        /\ Len(o) = 4
                        /\ \A i \in 1..4 : o[i] \in 0..255
                tags == Range(score_ret.reasons)
            IN  /\ quad =>
                      /\ "private_ip" \in tags <=>
                            \/ o[1] = 10
                            \/ o[1] = 172 /\ o[2] \in 16..31
                            \/ o[1] = 192 /\ o[2] = 168
                            \/ o[1] = 127
                      /\ "suspicious_ip_range" \in tags <=>
                            <<o[1], o[2], o[3]>> \in suspicious_ranges
                /\ ~quad => tags = {}
                /\ score_ret.score =
                        (IF "private_ip" \in tags THEN 50 ELSE 0)
                      + (IF "suspicious_ip_range" \in tags THEN 25 ELSE 0)
                /\ score_args.ip = Ip_10 => score_ret.reasons = <<"private_ip">>
                /\ score_args.ip = Ip_8888 => score_ret.reasons = <<>>

(***************************************************************************)
(* check(): the queue handoff, absent fields                               *)
(***************************************************************************)
\* C18: a failed handoff of the persistence event to the job queue is not
\* surfaced: the check returns the response (score, level, reasons, action,
\* message, explanation, recommendations) it returns when the handoff
\* succeeds, which the hits and the payload determine; an emitted event
\* carries the response's risk_score and action.
C18_QueueFailureNotSurfaced ==
    (req.pc = "done" /\ (event.sent \/ "queue" \in req.failed)) =>
        \E r \in {ComputeScore(req.hits, req.email, req.ip)} :
        \E d \in {GetActionRecommendations(r.score)} :
            /\ resp.status = 200
            /\ resp.risk_score = r.score
            /\ resp.risk_level = r.level
            /\ resp.reasons = r.reasons
            /\ resp.action = d.action
            /\ resp.message = d.message
            /\ resp.explanation = GetRiskExplanation(r.score, r.level)
            /\ resp.recommendations = d.recommendations
            /\ event.sent <=> "queue" \notin req.failed
            /\ event.sent =>
                  /\ event.risk_score = resp.risk_score
                  /\ event.action = resp.action
            /\ (/\ req.email = Email_disposable
                /\ req.ip = None
                /\ req.hits = <<"disposable_email">>) =>
                  /\ resp.risk_score = 85
                  /\ resp.action = "block"

\* the queue alone failed on a request for a@tmp.io, which is answered with
\* its score
C18_Witness ==
    /\ req.pc = "done"
    /\ req.failed = {"queue"}
    /\ req.email = Email_disposable
    /\ req.ip = None
    /\ ~event.sent
    /\ resp.status = 200
    /\ resp.risk_score = 85
    /\ resp.action = "block"

\* C19: a request with both ip and email absent yields no hits from any
\* source and a result with score 0, level "none", action "allow" and empty
\* reasons, whatever the indicator sets and blacklists hold.
C19_NothingToCheck ==
    (req.pc # "idle" /\ req.ip = None /\ req.email = None) =>
        /\ req.hits = <<>>
        /\ req.pc = "done" =>
              /\ resp.status = 200
              /\ resp.risk_score = 0
              /\ resp.risk_level = "none"
              /\ resp.action = "allow"
              /\ resp.reasons = <<>>

\* an empty payload of an organization with blacklist rows, redis connected,
\* has been answered
C19_Witness ==
    /\ req.pc = "done"
    /\ req.ip = None
    /\ req.email = None
    /\ redis = "conn"
    /\ req.api_key.org_id = "org1"
    /\ \E i \in DOMAIN blacklist : blacklist[i].org_id = "org1"
    /\ resp.status = 200
    /\ resp.risk_score = 0

\* C20: with email absent no disposable-domain and no email-domain blacklist
\* lookup is made, with ip absent no VPN, Tor, geolocation or IP-blacklist
\* lookup is made, and with the organization absent no blacklist lookup is
\* made; a skipped source yields neither a hit nor a failure.
C20_AbsentFieldsSkipSources ==
    LET touched == req.looked \cup req.failed
        tags == Range(req.hits)
    IN  /\ req.email = None =>
              /\ touched \cap {"disposable", "bl_email"} = {}
              /\ "disposable_email" \notin tags
        /\ req.ip = None =>
              /\ touched \cap {"vpn", "tor", "geo", "high_risk_set", "bl_ip"} = {}
              /\ tags \cap {"vpn_ip", "tor_exit", "high_risk_country", "bad_isp"} = {}
        /\ req.api_key.org_id = "" =>
              /\ touched \cap {"bl_ip", "bl_email"} = {}
              /\ "custom_blacklist" \notin tags
        /\ (req.email = None /\ req.ip = None) => touched \subseteq {"rate_limiter", "queue"}

\* a request without email of a key without organization reached its end
\* after the lookups on its ip, one of which failed
C20_Witness ==
    /\ req.pc = "done"
    /\ req.email = None
    /\ req.ip = Ip_185
    /\ req.api_key.org_id = ""
    /\ req.looked = {"vpn", "tor", "geo"}
    /\ req.failed = {"tor"}
    /\ req.hits = <<"vpn_ip", "bad_isp">>

(***************************************************************************)
(* check(): an email without "@"                                           *)
(***************************************************************************)
\* C21: an email without "@" is no signal for the email field: the request
\* is not rejected and the email contributes no hit, reason or score from
\* the disposable-domain lookup, the email-domain blacklist or the email
\* pattern analysis.
C21_MalformedEmailNoSignal ==
    (/\ req.pc = "done"
     /\ Truthy(req.email)
     /\ ~Contains(req.email, "@")) =>
        /\ resp.status = 200
        /\ "disposable_email" \notin Range(req.hits)
        /\ Range(resp.reasons) \cap
               {"disposable_email", "free_email", "suspicious_email_pattern",
                "short_email_local", "long_email_local",
                "excessive_numbers_email"} = {}
        /\ req.ip = None =>
              /\ req.hits = <<>>
              /\ resp.risk_score = 0
              /\ resp.reasons = <<>>

(***************************************************************************)
(* check(): the order of the hits                                          *)
(***************************************************************************)
\* the tags in the order in which the sources are asked
SourceOrder ==
    <<"disposable_email", "vpn_ip", "tor_exit", "high_risk_country", "bad_isp",
      "custom_blacklist", "custom_blacklist">>

\* C22: the hits of a request are ordered by source invocation order:
\* disposable_email, vpn_ip, tor_exit, high_risk_country, bad_isp,
\* custom_blacklist for the ip, custom_blacklist for the email domain;
\* duplicates are kept.
C22_HitsInSourceOrder ==
    /\ IsSubSeq(req.hits, SourceOrder)
    /\ (/\ req.pc = "done"
        /\ req.failed \subseteq {"rate_limiter", "queue"}
        /\ redis = "conn"
        /\ req.api_key.org_id = "org1"
        /\ req.email = Email_disposable
        /\ req.ip = Ip_185) =>
           /\ req.hits = <<"disposable_email", "vpn_ip", "tor_exit", "bad_isp",
                           "custom_blacklist", "custom_blacklist">>
           /\ SubSeq(resp.reasons, 1, 6) = req.hits

\* every source but the country set hits on one request, the blacklist twice
C22_Witness ==
    /\ req.pc = "done"
    /\ req.failed = {}
    /\ req.hits = <<"disposable_email", "vpn_ip", "tor_exit", "bad_isp",
                    "custom_blacklist", "custom_blacklist">>

(***************************************************************************)
(* The rate limiter: one step, regression of now, bounds                   *)
(***************************************************************************)
\* C23: when a later-executed call carries a smaller now than an earlier
\* one, the refill is not regressed: the stored last_refill of a key never
\* decreases (the interval credited to the bucket by a call starts at the
\* stored last_refill, so an interval is credited twice exactly when
\* last_refill has gone back).
C23_NoRefillRegression ==
    [][\A k \in Keys : rl_ts[k] # NoVal => rl_ts'[k] >= rl_ts[k]]_vars

\* C24: one allow_request step reads tokens (capacity if absent) and
\* last_refill (0 if absent), computes refilled = min(capacity, tokens +
\* max(0, now - last_refill) * rate), allows iff refilled >= 1, and stores
\* last_refill = now and tokens = refilled - 1 on allow, refilled on deny.
C24_StepSemantics ==
    [][\A p \in Callers :
          (caller[p].pc = "eval" /\ caller'[p].pc = "idle") =>
              LET k == caller[p].key
                  now == caller[p].now
                  tokens == IF rl_tokens[k] = NoVal
                            THEN capacity * Resolution ELSE rl_tokens[k]
                  last_refill == IF rl_ts[k] = NoVal THEN 0 ELSE rl_ts[k]
                  elapsed == IF now > last_refill THEN now - last_refill ELSE 0
                  uncapped == tokens + elapsed * rate
                  refilled == IF uncapped > capacity * Resolution
                              THEN capacity * Resolution ELSE uncapped
                  allow == refilled >= Resolution
              IN  /\ caller'[p].res = (IF allow THEN 1 ELSE 0)
                  /\ rl_ts'[k] = now
                  /\ rl_tokens'[k] =
                        (IF allow THEN refilled - Resolution ELSE refilled)]_vars

\* a call was denied on a bucket it had refilled by half a token: the
\* refilled count and its now are stored
C24_Witness ==
    /\ rate = 1
    /\ capacity = 1
    /\ hist["A"].nbatch = 2
    /\ hist["A"].fadm = 1
    /\ hist["A"].snow = hist["A"].fnow + 1
    /\ hist["A"].scalls = 1
    /\ hist["A"].sadm = 0
    /\ rl_tokens["A"] = 1
    /\ rl_ts["A"] = hist["A"].snow

\* C25: after any sequence of allow_request calls on a key, in any
\* interleaving and with any now values, the stored token count is within
\* 0..capacity.
C25_TokensWithinCapacity ==
    \A k \in Keys :
        rl_tokens[k] # NoVal =>
            /\ 0 <= rl_tokens[k]
            /\ rl_tokens[k] <= capacity * Resolution

\* a refill of two seconds on a bucket of capacity 2 that held one token was
\* cut at the capacity before the call took its token
C25_Witness ==
    /\ rate = 2
    /\ capacity = 2
    /\ hist["A"].nbatch = 2
    /\ hist["A"].fcalls = 1
    /\ hist["A"].scalls = 1
    /\ hist["A"].snow = hist["A"].fnow + 2
    /\ rl_tokens["A"] = 1 * Resolution

\* C27: for one key and calls executed with non-decreasing now, the calls
\* admitted with now in an interval [t0, t1] are at most capacity + rate *
\* (t1 - t0).  The history of a key holds the calls of its first two
\* instants, in the order of execution.
C27_AdmittedWithinBudget ==
    \A k \in Keys :
        LET h == hist[k]
        IN  /\ h.nbatch \in {1, 2} => h.fadm * Resolution <= capacity * Resolution
            /\ (h.nbatch = 2 /\ h.snow > h.fnow) =>
                  /\ h.sadm * Resolution <= capacity * Resolution
                  /\ (h.fadm + h.sadm) * Resolution
                        <= capacity * Resolution + rate * (h.snow - h.fnow)

\* capacity 1 and one token per second: one call admitted, one denied, and
\* one admitted a second later, which is the whole budget of that interval
C27_Witness ==
    /\ capacity = 1
    /\ rate = 1 * Resolution
    /\ hist["A"].nbatch = 2
    /\ hist["A"].fcalls = 2
    /\ hist["A"].fadm = 1
    /\ hist["A"].snow = hist["A"].fnow + 1
    /\ hist["A"].sadm = 1

\* C28: for capacity >= 1 and rate > 0, after a call on a key is denied at
\* time t, the next call on that key executed with now >= t + ceil(1/rate),
\* no call in between, is allowed.  The last call of the first instant was
\* denied when not all calls of that instant were admitted; the first call
\* of the second instant was allowed when any call of it was.
C28_DeniedNotStarved ==
    \A k \in Keys :
        LET h == hist[k]
            \* ceil(1 / rate) seconds, rate in 1/Resolution tokens per second
            wait == CHOOSE n \in 1..Resolution :
                        /\ n * rate >= Resolution
                        /\ \A m \in 1..(n - 1) : m * rate < Resolution
        IN  (/\ capacity >= 1
             /\ rate > 0
             /\ h.nbatch = 2
             /\ h.fadm < h.fcalls
             /\ h.snow >= h.fnow + wait) => h.sadm >= 1

\* half a token per second: a call denied on the empty bucket, and the next
\* call two seconds later allowed
C28_Witness ==
    /\ capacity = 1
    /\ rate = 1
    /\ hist["A"].nbatch = 2
    /\ hist["A"].fcalls = 2
    /\ hist["A"].fadm = 1
    /\ hist["A"].snow = hist["A"].fnow + 2
    /\ hist["A"].scalls = 1
    /\ hist["A"].sadm = 1

\* C29: an allow_request call on one key reads and writes only that key's
\* tokens and last_refill and leaves those of every other key unchanged, so
\* what is stored for key B, and with it every decision on B, is the same
\* with or without interleaved calls on key A.
C29_KeysIsolated ==
    [][\A p \in Callers :
          (caller[p].pc = "eval" /\ caller'[p].pc = "idle") =>
              /\ \A k \in Keys \ {caller[p].key} :
                    /\ rl_tokens'[k] = rl_tokens[k]
                    /\ rl_ts'[k] = rl_ts[k]
                    /\ hist'[k] = hist[k]
              /\ caller'[p].res =
                    TokensLua(rl_tokens[caller[p].key], rl_ts[caller[p].key],
                              rate, capacity, caller[p].now).res]_vars

\* with capacity 1, key A's only token was taken and a call on key B, made
\* at the same instant, was still admitted
C29_Witness ==
    /\ capacity = 1
    /\ hist["A"].nbatch = 1
    /\ hist["A"].fcalls = 2
    /\ hist["A"].fadm = 1
    /\ hist["B"].nbatch = 1
    /\ hist["B"].fnow = hist["A"].fnow
    /\ hist["B"].fcalls = 1
    /\ hist["B"].fadm = 1

(***************************************************************************)
(* The geolocation cache                                                   *)
(***************************************************************************)
\* C26: the in-process geolocation cache does not affect results: for every
\* ip and every sequence of transient failures of the backing data, the
\* high_risk_country and bad_isp hits of a request whose own geolocation
\* lookups did not fail equal those an uncached lookup produces at that
\* moment.
C26_CacheTransparent ==
    (/\ req.pc \in {"blacklist", "respond", "done"}
     /\ Truthy(req.ip)
     /\ ValidIp(req.ip)
     /\ req.failed \cap {"geo", "high_risk_set"} = {}) =>
        \E uncached \in {LookupIpSync(req.ip, "none")} :
            /\ "high_risk_country" \in Range(req.hits)
                  <=> uncached.is_high_risk_country
            /\ "bad_isp" \in Range(req.hits) <=> uncached.is_hosting_provider

(***************************************************************************)
(* The organization blacklist                                              *)
(***************************************************************************)
\* C30: after BlacklistCRUD.create(org, type, value) has been called one or
\* more times with the same (org, type, value) and no delete,
\* is_blacklisted(org, type, v) is True for every v equal to value up to
\* letter case and surrounding whitespace, and a check of that org carrying
\* the value reports custom_blacklist with score 100.
C30_CreatedIsBlacklisted ==
    /\ \A i \in DOMAIN blacklist :
          \A v \in {blacklist[i].value} \cup
                   {c \in CreatedValues : LookupValue(c) = blacklist[i].value} :
              IsBlacklisted(blacklist, blacklist[i].org_id,
                            blacklist[i].type, v) = "yes"
    /\ (/\ req.pc = "done"
        /\ req.api_key.org_id = "org1"
        /\ \E i \in DOMAIN blacklist :
              /\ blacklist[i].org_id = "org1"
              /\ blacklist[i].type = "email_domain"
              /\ blacklist[i].value = DomainOf(req.email)
        /\ req.looked = {"disposable", "bl_email"} \/ req.looked = {"bl_email"}
        /\ req.failed \subseteq {"rate_limiter", "disposable", "queue"}) =>
           /\ "custom_blacklist" \in Range(req.hits)
           /\ resp.risk_score = 100

====
